---- MODULE Spec2Model ----
(***************************************************************************)
(* A model of almdrlib.session.Session (src/almdrlib/session.py): the      *)
(* fields of one Session object, the lazy _authenticate operation, the     *)
(* requests auth callback __call__, the account_id property, get_url,      *)
(* request, client, get_default and the plain property reads.  Under Spec  *)
(* and SpecWF every action is one complete call of a public method by a    *)
(* single thread; SpecRetry adds the transport's retry loop, SpecConc two  *)
(* threads on one Session, SpecShared two Sessions in one process.         *)
(***************************************************************************)
EXTENDS Integers, Sequences, FiniteSets, TLC

\* Python's None (also what response.json() gives for a JSON null).
None == "None"
\* A key missing from a JSON object, or an attribute never assigned.
Absent == "Absent"

\* At most this many _authenticate invocations are explored.
MaxAuthCalls == 2

\* ------------------------------------------------------------------------
\* The environment: constructor arguments and HTTP responses.

\* aims_token argument of Session.__init__
CtorTokens == {None, "T0"}
\* account_id the Config resolves (explicit argument or profile), or None
CtorAccountIds == {None, "A0"}
\* outbound request objects handed to __call__
Requests == {"r1", "r2"}
\* HTTP status codes an endpoint can answer with: success, a non-2xx below
\* 400, a 4xx, a 5xx the transport does not retry, and the two it does
Statuses == {200, 304, 404, 500, 502, 503}
\* values of authentication.token in the identity service's body
BodyTokens == {Absent, None, "T1", "T2"}
\* values of authentication.account.id
BodyIds == {Absent, None, "A1"}
\* values of authentication.account.name
BodyNames == {Absent, "N1"}
\* account_id argument of get_url
UrlAccountArgs == {None, "A9"}
\* service names passed to get_url and client
Services == {"aetuner"}
\* a response body that response.json() cannot parse (an empty one, say)
NotJson == "NotJson"
\* the body of a get_url response: not JSON, or JSON with or without an
\* entry for the service
DirectoryHosts == {NotJson, Absent, "host.example"}
\* A 304 Not Modified carries no body.
HasNoBody(status) == status = 304
\* names passed to get_default
DefaultNames == {"account_id", "other"}
\* plain properties
PlainProps == {"token", "account_name", "residency", "global_endpoint",
               "global_endpoint_url"}

\* A response of the identity service: status, whether the body parses as
\* JSON, and the three fields _authenticate looks up.
AuthResponses ==
    [status : Statuses, json : BOOLEAN, token : BodyTokens,
     id : BodyIds, name : BodyNames]

NoResp == [status |-> 0, json |-> FALSE, token |-> Absent,
           id |-> Absent, name |-> Absent]

\* Python truthiness of an optional string (if aims_token:, a or b)
Truthy(x) == x \notin {None, ""}

\* requests.Response.raise_for_status(): HTTPError for 4xx and 5xx only
RaisesHTTPError(status) == status >= 400 /\ status < 600

\* requests.Session().auth before _authenticate assigns it
NoSessionAuth == <<>>

\* Config.get_auth(): the access key and secret the Config resolved
ConfigGetAuth == <<"AK", "SK">>

\* ------------------------------------------------------------------------
\* The transport: requests.Session with HTTPAdapter(max_retries=Retry(...))
\* mounted for https:// (line 86-88).

\* Retry(total=5, ...)
RetryTotal == 5
\* Retry(status_forcelist=[502, 503])
StatusForcelist == {502, 503}
\* Retry's allowed methods, left at urllib3's default: the idempotent ones
RetriedMethods == {"HEAD", "GET", "PUT", "DELETE", "OPTIONS", "TRACE"}

\* methods of the requests explored
Methods == {"GET", "POST"}
\* An endpoint answers failStatus to the first `fails` attempts and `final`
\* to every later one; at most this many failing answers are explored.
MaxFails == 6
Endpoints ==
    [fails : 0..MaxFails, failStatus : StatusForcelist,
     final : Statuses \ StatusForcelist]


\* the endpoint's answer to the k-th attempt
Answer(ep, k) == IF k <= ep.fails THEN ep.failStatus ELSE ep.final

\* Retry.is_retry(method, status_code): only allowed methods are retried
IsRetry(method, status) ==
    method \in RetriedMethods /\ status \in StatusForcelist

\* urllib3's loop: attempt k with `left` retries left
RECURSIVE Attempt(_, _, _, _)
Attempt(method, ep, k, left) ==
    LET st == Answer(ep, k) IN
    IF IsRetry(method, st)
    THEN IF left = 0
         THEN [status |-> st, exc |-> "RetryError", attempts |-> k]
         ELSE Attempt(method, ep, k + 1, left - 1)
    ELSE [status |-> st, exc |-> "none", attempts |-> k]

\* what the mounted adapter hands back for one request
Transport(method, ep) == Attempt(method, ep, 1, RetryTotal)

\* line 88 mounts the retrying adapter for https:// urls only; an http://
\* url goes through the adapter requests.Session() comes with, which makes
\* one attempt and hands back whatever the answer is
Schemes == {"https", "http"}
TransportFor(scheme, method, ep) ==
    IF scheme = "https" THEN Transport(method, ep)
    ELSE [status |-> Answer(ep, 1), exc |-> "none", attempts |-> 1]

\* a number of failing answers the retries get over
SomeFails == 2
\* endpoints that answer at once, after some 502/503, or never stop
\* answering 502/503 within the attempts made
ProbedEndpoints == {ep \in Endpoints : ep.fails \in {0, SomeFails, MaxFails}}
\* everything the transport can do with a request of this method to a
\* url of this scheme: the response it hands back, or what it raises, over
\* these endpoints
Answers ==
    [scheme \in Schemes |-> [method \in Methods |->
        {TransportFor(scheme, method, ep) : ep \in ProbedEndpoints}]]
\* the same over the endpoints that never answer 502 or 503
DirectAnswers ==
    [scheme \in Schemes |-> [method \in Methods |->
        {TransportFor(scheme, method, ep) :
            ep \in {e \in Endpoints : e.fails = 0}}]]
\* no request was made
NoAnswer == [status |-> 0, exc |-> "none", attempts |-> 0]

NoNet == [op |-> "none", method |-> "none", fails |-> 0, failStatus |-> 0,
          final |-> 0, status |-> 0, exc |-> "none", attempts |-> 0]

\* ------------------------------------------------------------------------
\* Threads and what Sessions share.

Threads == {"t1", "t2"}
\* resp is the thread's own `response` / `auth_info` local, ret the value
\* the call attached to the request or returned
IdleThread == [pc |-> "idle", op |-> "none", r |-> None, saw |-> Absent,
               auth |-> FALSE, exc |-> "none", resp |-> NoResp,
               ret |-> Absent]
\* where a thread stands while it is inside _authenticate: blocked in the
\* POST (line 110), before the test of line 122, before the assignment of
\* line 124, before the assignment of line 130
InAuthenticate == {"posted", "token_stored", "id_tested", "id_settled"}
\* request(..., headers={}): the one dict every call without a headers
\* argument gets, on every Session, and each thread's call in progress
IdleRequest == [pc |-> "idle", session |-> "none", explicit |-> FALSE,
                own |-> Absent, sent |-> Absent, exc |-> "none"]
\* (the dict is empty until a call writes it), and a second Session of the
\* process, when there is one
NoShared == [default |-> Absent, peer |-> Absent,
             req |-> [t \in Threads |-> IdleRequest]]

\* ------------------------------------------------------------------------
\* The Session object.

VARIABLES
    token,             \* self._token
    account_id,        \* self._account_id
    account_name,      \* self._account_name (Absent until assigned)
    access_key_id,     \* self._access_key_id (Absent when a token was given)
    secret_key,        \* self._secret_key
    session_auth,      \* self._session.auth
    raise_for_status,  \* self._raise_for_status
    config,            \* the constructor's arguments and the Config's values
    reqHeaders,        \* x-aims-auth-token of each outbound request object
    authCalls,         \* number of _authenticate invocations so far
    authOK,            \* number of _authenticate calls that returned normally
    last,              \* the last public call: what it saw and what it did
    net,               \* the last exchange seen at the transport's retry loop
    threads,           \* where each thread stands inside a call on the Session
    shared             \* request()'s default headers dict and its users

vars == <<token, account_id, account_name, access_key_id, secret_key,
          session_auth, raise_for_status, config,
          reqHeaders, authCalls, authOK, last, net, threads, shared>>

\* what the single-threaded calls on one Session leave alone
others == <<net, threads, shared>>

\* The fields _authenticate reads and writes, as one record.
Self ==
    [token |-> token, account_id |-> account_id,
     account_name |-> account_name, access_key_id |-> access_key_id,
     secret_key |-> secret_key, session_auth |-> session_auth]

NoCall ==
    [op |-> "init", arg |-> None, pre |-> Self, calls |-> authCalls,
     attempts |-> 0, scheme |-> None, auth |-> FALSE,
     resp |-> NoResp, authExc |-> "none", exc |-> "none", ret |-> None,
     status |-> 0, sent |-> Absent]

\* Session.__init__
InitSession ==
    /\ \E t \in CtorTokens, a \in CtorAccountIds, rfs \in BOOLEAN :
        /\ config = [aims_token |-> t, account_id |-> a,
                     raise_for_status |-> rfs, residency |-> "us",
                     global_endpoint |-> "production",
                     global_endpoint_url |-> "https://api.global"]
        /\ token = IF Truthy(t) THEN t ELSE None
        /\ account_id = a
        /\ raise_for_status = rfs
        /\ access_key_id = IF Truthy(t) THEN Absent ELSE ConfigGetAuth[1]
        /\ secret_key = IF Truthy(t) THEN Absent ELSE ConfigGetAuth[2]
    /\ account_name = Absent
    /\ session_auth = NoSessionAuth
    /\ reqHeaders = [r \in Requests |-> Absent]
    /\ authCalls = 0
    /\ authOK = 0
    /\ last = NoCall
    /\ net = NoNet
    /\ threads = [t \in Threads |-> IdleThread]

\* one Session in the process, nothing called yet
Init == InitSession /\ shared = NoShared

\* ------------------------------------------------------------------------
\* Session._authenticate, as a function of the object's fields and of the
\* identity service's response: the fields afterwards and what was raised.

Returned(self) == [self |-> self, exc |-> "none"]
Raised(self, e) == [self |-> self, exc |-> e]

ErrHttp == "AuthenticationException: invalid http response"
ErrToken == "AuthenticationException: token not found in response"
ErrAccountId == "AuthenticationException: account id not found in response"
ErrAccountName == "AuthenticationException: account name not found in response"
ErrEndpoints ==
    "AuthenticationException: invalid http response from endpoints service"

AuthenticationExceptions ==
    {ErrHttp, ErrToken, ErrAccountId, ErrAccountName, ErrEndpoints}

\* lines 129-133: auth_info["authentication"]["account"]["name"]
AuthStoreAccountName(self, resp) ==
    IF resp.name = Absent
    THEN Raised(self, ErrAccountName)
    ELSE Returned([self EXCEPT !.account_name = resp.name])

\* A variant that never stores the response's account id.
AuthStoreAccountId_Skip(self, resp) == AuthStoreAccountName(self, resp)

\* A variant that takes the response's account id even when one is known.
AuthStoreAccountId_Overwrite(self, resp) ==
    IF resp.id = Absent
    THEN Raised(self, ErrAccountId)
    ELSE AuthStoreAccountName([self EXCEPT !.account_id = resp.id], resp)

\* lines 122-127: the account id is looked up only when none is known yet
AuthStoreAccountId(self, resp) ==
    IF self.account_id = None
    THEN IF resp.id = Absent
         THEN Raised(self, ErrAccountId)
         ELSE AuthStoreAccountName([self EXCEPT !.account_id = resp.id], resp)
    ELSE AuthStoreAccountName(self, resp)

\* A variant that parses the account name before it looks for the token.
AuthStoreToken_NameFirst(self, resp) ==
    LET s1 == IF resp.name = Absent THEN self
              ELSE [self EXCEPT !.account_name = resp.name]
    IN  IF resp.token = Absent
        THEN Raised(s1, ErrToken)
        ELSE AuthStoreAccountId([s1 EXCEPT !.token = resp.token], resp)

\* lines 116-120: auth_info["authentication"]["token"]
AuthStoreToken(self, resp) ==
    IF resp.token = Absent
    THEN Raised(self, ErrToken)
    ELSE AuthStoreAccountId([self EXCEPT !.token = resp.token], resp)

\* whether the object has the attributes _authenticate reads first
HasKeys(self) == self.access_key_id # Absent /\ self.secret_key # Absent

\* line 116, response.json(): whether the body parses
Parses(resp) == resp.json /\ ~HasNoBody(resp.status)

Authenticate(self, resp) ==
    IF ~HasKeys(self)
    THEN Raised(self, "AttributeError")
    ELSE LET s1 == [self EXCEPT
                      !.session_auth = <<self.access_key_id, self.secret_key>>]
         IN  IF RaisesHTTPError(resp.status)
             THEN Raised(s1, ErrHttp)
             ELSE IF ~Parses(resp)
                  THEN Raised(s1, "ValueError")
                  ELSE AuthStoreToken(s1, resp)

\* A variant of the callback's test with a single-flight guard: it skips
\* _authenticate while another thread's authenticate POST is in flight.
CallNeedsAuth_SingleFlight(self) ==
    /\ self.token = None
    /\ \A t \in DOMAIN threads : threads[t].pc \notin InAuthenticate

\* A variant of the callback's test that authenticates on every call.
CallNeedsAuth_Always(self) == TRUE

\* A variant of the callback's test that looks at the account id.
CallNeedsAuth_AccountId(self) == self.account_id = None

\* line 139: if self._token is None
CallNeedsAuth(self) == self.token = None

\* A variant of the property's test that authenticates on every read.
AccountIdNeedsAuth_Always(self) == TRUE

\* line 246: if self._account_id is None
AccountIdNeedsAuth(self) == self.account_id = None

\* the account_id property: the fields afterwards and what was raised;
\* the value returned is the account_id field afterwards
AccountIdProperty(self, resp) ==
    IF AccountIdNeedsAuth(self) THEN Authenticate(self, resp)
    ELSE Returned(self)

\* The responses the identity service can give to a POST this call issues
\* (none when _authenticate is not invoked or stops before the POST).
ResponsesFor(need) ==
    IF need /\ HasKeys(Self)
    THEN {r \in AuthResponses :
            /\ HasNoBody(r.status) => ~r.json
            /\ (~r.json \/ RaisesHTTPError(r.status)) =>
                   (r.token = Absent /\ r.id = Absent /\ r.name = Absent)}
    ELSE {NoResp}

\* assignment of the object's fields
SetSelf(s) ==
    /\ token' = s.token
    /\ account_id' = s.account_id
    /\ account_name' = s.account_name
    /\ access_key_id' = s.access_key_id
    /\ secret_key' = s.secret_key
    /\ session_auth' = s.session_auth

\* bookkeeping of an _authenticate invocation made by the current call
CountAuth(need, a) ==
    /\ authCalls' = authCalls + (IF need THEN 1 ELSE 0)
    /\ authOK' = authOK + (IF need /\ a.exc = "none" THEN 1 ELSE 0)

\* ------------------------------------------------------------------------
\* The public operations.

\* Session.__call__(r)
Call(r) ==
    LET need == CallNeedsAuth(Self) IN
    /\ need => authCalls < MaxAuthCalls
    /\ \E resp \in ResponsesFor(need) :
        LET a == IF need THEN Authenticate(Self, resp) ELSE Returned(Self)
            ok == a.exc = "none"
        IN  /\ SetSelf(a.self)
            /\ CountAuth(need, a)
            /\ reqHeaders' = IF ok THEN [reqHeaders EXCEPT ![r] = a.self.token]
                              ELSE reqHeaders
            /\ last' = [op |-> "__call__", arg |-> r, pre |-> Self,
                        calls |-> authCalls, attempts |-> 0, scheme |-> None,
                        auth |-> need, resp |-> resp, authExc |-> a.exc,
                        exc |-> a.exc, ret |-> IF ok THEN r ELSE None,
                        status |-> 0,
                        sent |-> IF ok THEN a.self.token ELSE Absent]
    /\ UNCHANGED others
    /\ UNCHANGED <<raise_for_status, config>>

\* reading Session.account_id
ReadAccountId ==
    LET need == AccountIdNeedsAuth(Self) IN
    /\ need => authCalls < MaxAuthCalls
    /\ \E resp \in ResponsesFor(need) :
        LET a == AccountIdProperty(Self, resp)
            ok == a.exc = "none"
        IN  /\ SetSelf(a.self)
            /\ CountAuth(need, a)
            /\ last' = [op |-> "account_id", arg |-> None, pre |-> Self,
                        calls |-> authCalls, attempts |-> 0, scheme |-> None,
                        auth |-> need, resp |-> resp, authExc |-> a.exc,
                        exc |-> a.exc,
                        ret |-> IF ok THEN a.self.account_id ELSE None,
                        status |-> 0, sent |-> Absent]
    /\ UNCHANGED others
    /\ UNCHANGED <<raise_for_status, config, reqHeaders>>

\* Session.get_default(name)
GetDefault(name) ==
    LET need == name = "account_id" /\ AccountIdNeedsAuth(Self) IN
    /\ need => authCalls < MaxAuthCalls
    /\ \E resp \in ResponsesFor(need) :
        LET a == IF name = "account_id" THEN AccountIdProperty(Self, resp)
                 ELSE Returned(Self)
            ok == a.exc = "none"
        IN  /\ SetSelf(a.self)
            /\ CountAuth(need, a)
            /\ last' = [op |-> "get_default", arg |-> name, pre |-> Self,
                        calls |-> authCalls, attempts |-> 0, scheme |-> None,
                        auth |-> need, resp |-> resp, authExc |-> a.exc,
                        exc |-> a.exc,
                        ret |-> IF ok /\ name = "account_id"
                                THEN a.self.account_id ELSE None,
                        status |-> 0, sent |-> Absent]
    /\ UNCHANGED others
    /\ UNCHANGED <<raise_for_status, config, reqHeaders>>

\* A variant that reads the property whatever the argument is.
GetUrlReadsProperty_Always(arg) == TRUE

\* line 187: account_id or self.account_id reads the property only when
\* the argument is falsy
GetUrlReadsProperty(arg) == ~Truthy(arg)

\* lines 190-195 of get_url, after the GET returned: what is raised
GetUrlOutcome(status, host) ==
    IF RaisesHTTPError(status) THEN ErrEndpoints
    ELSE IF host = NotJson THEN "ValueError"
    ELSE IF host = Absent THEN "KeyError"
    ELSE "none"

\* the bodies a directory response can carry; no body is read when no
\* response came back or when line 190 raises
BodiesOf(t) ==
    IF t.exc # "none" \/ t = NoAnswer \/ RaisesHTTPError(t.status)
    THEN {Absent}
    ELSE IF HasNoBody(t.status) THEN {NotJson}
    ELSE DirectoryHosts

\* Session.get_url(service_name, account_id=arg); the GET of line 184 goes
\* through the transport, which does t (NoAnswer when the GET is not
\* sent), and what the transport raises is no HTTPError and passes line
\* 191 as it is
GetUrl(service, arg, t) ==
    LET reads == GetUrlReadsProperty(arg)
        need == reads /\ AccountIdNeedsAuth(Self)
    IN
    /\ need => authCalls < MaxAuthCalls
    /\ \E resp \in ResponsesFor(need), host \in BodiesOf(t) :
        LET a == IF reads THEN AccountIdProperty(Self, resp)
                 ELSE Returned(Self)
            sentGet == a.exc = "none"
            used == IF reads THEN a.self.account_id ELSE arg
            e == IF ~sentGet THEN a.exc
                 ELSE IF t.exc # "none" THEN t.exc
                 ELSE GetUrlOutcome(t.status, host)
        IN  \* the GET is sent only when the account id was obtained
            /\ sentGet = (t # NoAnswer)
            /\ SetSelf(a.self)
            /\ CountAuth(need, a)
            /\ last' = [op |-> "get_url", arg |-> arg, pre |-> Self,
                        calls |-> authCalls, attempts |-> t.attempts,
                        scheme |-> IF sentGet THEN "https" ELSE None,
                        auth |-> need, resp |-> resp, authExc |-> a.exc,
                        exc |-> e,
                        ret |-> IF e = "none" THEN "https://host.example"
                                ELSE None,
                        status |-> t.status,
                        sent |-> IF sentGet THEN used ELSE Absent]
    /\ UNCHANGED others
    /\ UNCHANGED <<raise_for_status, config, reqHeaders>>

\* A variant that sends an empty header value while there is no token.
RequestToken_Empty(self) == IF self.token = None THEN "" ELSE self.token

\* line 205: the token request() puts into the headers it sends
RequestToken(self) == self.token

\* A variant that raises whatever the raise_for_status flag says.
RequestRaises_IgnoreFlag(rfs, status) == RaisesHTTPError(status)

\* lines 218-219: whether request() raises instead of returning
RequestRaises(rfs, status) == rfs /\ RaisesHTTPError(status)

\* line 205 on the dict request() was given: the default dict of line 202
\* when the caller passed no headers argument, the caller's own otherwise
DefaultHeadersAfter(explicit, tok) ==
    IF explicit THEN shared ELSE [shared EXCEPT !.default = tok]

\* lines 212-219: what request() raises, given what the transport did
RequestOutcome(rfs, t) ==
    IF t.exc # "none" THEN t.exc
    ELSE IF RequestRaises(rfs, t.status) THEN "HTTPError" ELSE "none"

\* Session.request(method, url, ...) with a url of this scheme, with or
\* without a headers argument; the transport does t with the request of
\* line 212
Request(method, scheme, t, explicit) ==
    LET e == RequestOutcome(raise_for_status, t) IN
    /\ last' = [op |-> "request", arg |-> method, pre |-> Self,
                calls |-> authCalls, attempts |-> t.attempts,
                scheme |-> scheme,
                auth |-> FALSE, resp |-> NoResp, authExc |-> "none",
                exc |-> e,
                ret |-> IF e = "none" THEN "response" ELSE None,
                status |-> t.status, sent |-> RequestToken(Self)]
    /\ shared' = DefaultHeadersAfter(explicit, RequestToken(Self))
    /\ UNCHANGED <<net, threads>>
    /\ UNCHANGED <<token, account_id, account_name, access_key_id, secret_key,
                   session_auth, raise_for_status, config, reqHeaders,
                   authCalls, authOK>>

\* Session.client(service_name): builds a Client bound to this Session
ClientOp(service) ==
    /\ last' = [op |-> "client", arg |-> service, pre |-> Self,
                calls |-> authCalls, attempts |-> 0, scheme |-> None,
                auth |-> FALSE, resp |-> NoResp, authExc |-> "none",
                exc |-> "none", ret |-> "client", status |-> 0,
                sent |-> Absent]
    /\ UNCHANGED others
    /\ UNCHANGED <<token, account_id, account_name, access_key_id, secret_key,
                   session_auth, raise_for_status, config, reqHeaders,
                   authCalls, authOK>>

\* the value a plain property returns
PlainValue(self, p) ==
    CASE p = "token" -> self.token
      [] p = "account_name" -> self.account_name
      [] p = "residency" -> config.residency
      [] p = "global_endpoint" -> config.global_endpoint
      [] OTHER -> config.global_endpoint_url

\* reading token, account_name, residency, global_endpoint or
\* global_endpoint_url
ReadPlain(p) ==
    LET v == PlainValue(Self, p) IN
    /\ last' = [op |-> p, arg |-> None, pre |-> Self,
                calls |-> authCalls, attempts |-> 0, scheme |-> None,
                auth |-> FALSE, resp |-> NoResp, authExc |-> "none",
                exc |-> IF v = Absent THEN "AttributeError" ELSE "none",
                ret |-> IF v = Absent THEN None ELSE v,
                status |-> 0, sent |-> Absent]
    /\ UNCHANGED others
    /\ UNCHANGED <<token, account_id, account_name, access_key_id, secret_key,
                   session_auth, raise_for_status, config, reqHeaders,
                   authCalls, authOK>>

\* The calls on one Session, against endpoints that never answer 502 or
\* 503: nothing is retried, and neither the method of a request nor the
\* scheme of its url makes a difference.
Next ==
    \/ \E r \in Requests : Call(r)
    \/ ReadAccountId
    \/ \E name \in DefaultNames : GetDefault(name)
    \/ \E service \in Services, arg \in UrlAccountArgs,
          t \in DirectAnswers["https"]["GET"] \cup {NoAnswer} :
            GetUrl(service, arg, t)
    \/ \E explicit \in BOOLEAN, t \in DirectAnswers["https"]["GET"] :
            Request("GET", "https", t, explicit)
    \/ \E service \in Services : ClientOp(service)
    \/ \E p \in PlainProps : ReadPlain(p)

Spec == Init /\ [][Next]_vars

\* ------------------------------------------------------------------------
\* Properties.

\* the identity service answered with the documented body
WellFormed(resp) ==
    /\ resp.status = 200
    /\ resp.json
    /\ resp.token \notin {Absent, None}
    /\ resp.id \notin {Absent, None}
    /\ resp.name \notin {Absent, None}

\* the last call was the first one to invoke _authenticate, on a Session
\* built from a key and secret, through __call__ or the account_id property,
\* and the identity service gave a well-formed body
FirstAuthWellFormed ==
    /\ ~Truthy(config.aims_token)
    /\ last.op \in {"__call__", "account_id"}
    /\ last.auth
    /\ last.calls = 0
    /\ WellFormed(last.resp)

\* C1 as stated: after the first call that triggers authentication with a
\* well-formed response, token, account_id and account_name all equal the
\* response's fields.
C1_AsStated ==
    FirstAuthWellFormed =>
        /\ token = last.resp.token
        /\ account_id = last.resp.id
        /\ account_name = last.resp.name

\* C1 amended: token and account_name equal the response's fields;
\* account_id equals the response's id when no account id was given at
\* construction, and stays the given account id otherwise.
C1_Populated ==
    FirstAuthWellFormed =>
        /\ token = last.resp.token
        /\ account_name = last.resp.name
        /\ account_id = IF config.account_id = None THEN last.resp.id
                        ELSE config.account_id

C1_Witness ==
    /\ FirstAuthWellFormed
    /\ last.op = "account_id"
    /\ config.account_id = None
    /\ last.pre.token = None
    /\ token = "T1" /\ account_id = "A1" /\ account_name = "N1"
    /\ last.ret = "A1"

\* C2: token goes from None to a value only in a call whose _authenticate
\* returned normally; a call whose _authenticate failed on an
\* unauthenticated Session leaves token None.
C2_OnlyBySuccess ==
    /\ (last.pre.token = None /\ token # None) =>
            (last.auth /\ last.authExc = "none")
    /\ (last.pre.token = None /\ last.auth /\ last.authExc # "none") =>
            token = None

\* C3: when the response body has no authentication.token, _authenticate
\* raises AuthenticationException (token not found), the caller sees it, and
\* token, account_id and account_name are what they were before the call.
C3_MissingTokenNoPartialState ==
    (last.auth /\ ~RaisesHTTPError(last.resp.status) /\ last.resp.json
        /\ last.resp.token = Absent) =>
        /\ last.authExc = ErrToken
        /\ last.exc = ErrToken
        /\ last.exc \in AuthenticationExceptions
        /\ token = last.pre.token
        /\ account_id = last.pre.account_id
        /\ account_name = last.pre.account_name

C3_Witness ==
    /\ last.auth /\ last.resp.status = 200 /\ last.resp.json
    /\ last.resp.token = Absent /\ last.resp.name = "N1"
    /\ last.resp.id = "A1"
    /\ last.exc = ErrToken
    /\ token = None /\ account_id = None /\ account_name = Absent

\* C4: a Session built with a token and an account id never invokes
\* _authenticate, whatever is called on it.
C4_TokenAndAccountNeverAuth ==
    (Truthy(config.aims_token) /\ config.account_id # None) =>
        (authCalls = 0 /\ ~last.auth)

C4_Witness ==
    /\ Truthy(config.aims_token) /\ config.account_id # None
    /\ last.op = "account_id" /\ last.ret = "A0"
    /\ reqHeaders["r1"] = "T0"
    /\ authCalls = 0

\* the last call asked for the Session's own account id
AskedAccountId ==
    \/ last.op = "account_id"
    \/ last.op = "get_url" /\ ~Truthy(last.arg)
    \/ last.op = "get_default" /\ last.arg = "account_id"

\* C5: with token set, _authenticate is invoked only by a call that asks
\* for account_id while the stored account_id is None; and on a Session
\* built with a token and no account id, reading account_id does invoke it.
C5_ReauthOnlyForAccountId ==
    /\ (last.auth /\ last.pre.token # None) =>
            (AskedAccountId /\ last.pre.account_id = None)
    /\ (Truthy(config.aims_token) /\ config.account_id = None
            /\ last.op = "account_id") =>
            (last.auth /\ last.pre.token # None /\ authCalls = last.calls + 1)

C5_Witness ==
    /\ Truthy(config.aims_token) /\ config.account_id = None
    /\ last.op = "account_id"
    /\ last.pre.token = "T0"
    /\ last.auth
    /\ authCalls = 1

\* C6: whenever _authenticate is invoked the Session holds an access key
\* and a secret key.
C6_AuthHasKeys == last.auth => HasKeys(last.pre)

\* C7: a callback on a Session whose token is set attaches that token and
\* does not invoke _authenticate; so after one successful authentication
\* every request signed carries the same token.
C7_SignTwiceSameToken ==
    /\ (last.op = "__call__" /\ last.pre.token # None) =>
            /\ ~last.auth
            /\ authCalls = last.calls
            /\ token = last.pre.token
            /\ reqHeaders[last.arg] = last.pre.token
    /\ (authCalls = 1 /\ authOK = 1 /\ token # None) =>
            \A r \in Requests : reqHeaders[r] \in {Absent, token}

C7_Witness ==
    /\ authCalls = 1 /\ authOK = 1
    /\ token = "T1"
    /\ reqHeaders["r1"] = "T1" /\ reqHeaders["r2"] = "T1"
    /\ last.op = "__call__" /\ ~last.auth

\* C8: no call takes token from a value back to None.
C8_StaysAuthenticated == last.pre.token # None => token # None

\* C9: request never invokes _authenticate, leaves token, account_id and
\* account_name as they were, and sends the token it found, None included.
C9_RequestNoAuth ==
    last.op = "request" =>
        /\ ~last.auth
        /\ authCalls = last.calls
        /\ token = last.pre.token
        /\ account_id = last.pre.account_id
        /\ account_name = last.pre.account_name
        /\ last.sent = last.pre.token

C9_Witness ==
    /\ last.op = "request"
    /\ last.pre.token = None /\ last.sent = None
    /\ last.exc = "none" /\ last.ret = "response"
    /\ token = None /\ authCalls = 0

\* C10 as stated: for a response that is not 2xx, request returns the
\* response when raise_for_status is off and raises when it is on.
C10_AsStated ==
    (last.op = "request" /\ (last.status < 200 \/ last.status >= 300)) =>
        IF raise_for_status
        THEN last.exc = "HTTPError" /\ last.ret = None
        ELSE last.exc = "none" /\ last.ret = "response"

\* C10 amended: for a 4xx or 5xx response the transport hands back,
\* request returns the response when raise_for_status is off and raises
\* when it is on; any other status (304 for one) is returned whatever the
\* flag; and when a request to an https:// url with a retried method is
\* still answered 502 or 503 on the last attempt the transport makes,
\* request raises RetryError and returns nothing, whatever the flag.
C10_RaiseOrReturn ==
    last.op = "request" =>
        IF /\ last.scheme = "https" /\ last.arg \in RetriedMethods
           /\ last.status \in StatusForcelist
        THEN /\ last.exc = "RetryError" /\ last.ret = None
             /\ last.attempts = RetryTotal + 1
        ELSE IF last.status >= 400 /\ last.status < 600
        THEN IF raise_for_status
             THEN last.exc = "HTTPError" /\ last.ret = None
             ELSE last.exc = "none" /\ last.ret = "response"
        ELSE last.exc = "none" /\ last.ret = "response"

C10_Witness ==
    /\ last.op = "request" /\ last.status = 404
    /\ ~raise_for_status
    /\ last.exc = "none" /\ last.ret = "response"

\* C13: on a Session built from a key and secret, before any
\* authentication, account_name is None and reading it returns None, raises
\* nothing and changes no field.
C13_FreshAccountNameIsNone ==
    (last.op = "account_name" /\ ~Truthy(config.aims_token) /\ authCalls = 0) =>
        /\ last.pre.token = None
        /\ last.pre.account_name = None
        /\ last.exc = "none"
        /\ last.ret = None
        /\ token = last.pre.token
        /\ account_id = last.pre.account_id
        /\ account_name = last.pre.account_name

\* C15: _authenticate never changes an account id that is already known,
\* and with a known account id a response that has a token and a name but
\* no account id makes it return normally.
C15_KnownAccountIdKept ==
    /\ (last.auth /\ last.pre.account_id # None) =>
            account_id = last.pre.account_id
    /\ (last.auth /\ last.pre.account_id # None /\ HasKeys(last.pre)
            /\ ~RaisesHTTPError(last.resp.status) /\ last.resp.json
            /\ last.resp.token # Absent /\ last.resp.name # Absent
            /\ last.resp.id = Absent) =>
            /\ last.authExc = "none"
            /\ token = last.resp.token
            /\ account_name = last.resp.name

C15_Witness ==
    /\ last.op = "__call__" /\ last.auth
    /\ last.pre.account_id = "A0"
    /\ last.resp.id = Absent /\ last.resp.token = "T1"
    /\ last.authExc = "none"
    /\ account_id = "A0" /\ token = "T1" /\ account_name = "N1"

\* C16: a callback on a Session whose token is None invokes _authenticate;
\* when it returns, the request's header is the Session's token and that
\* token is not None; when _authenticate fails, what propagates is an
\* AuthenticationException and no header is attached.
C16_CallAuthThenHeader ==
    (last.op = "__call__" /\ last.pre.token = None) =>
        /\ last.auth
        /\ IF last.exc = "none"
           THEN /\ last.sent = token
                /\ reqHeaders[last.arg] = token
                /\ token # None
           ELSE /\ last.exc \in AuthenticationExceptions
                /\ last.sent = Absent

\* get_url was called without an account id on a Session that has none
GetUrlOwnAccount ==
    last.op = "get_url" /\ ~Truthy(last.arg) /\ last.pre.account_id = None

\* what get_url does about authentication and which account id it looks
\* up: without an account id and with none stored it invokes _authenticate
\* and the GET, sent only when that returned, carries the account id stored
\* by it; with an account id given it invokes nothing and looks that id up
GetUrlAccountUsed ==
    /\ GetUrlOwnAccount =>
            /\ last.auth
            /\ (last.sent # Absent) = (last.authExc = "none")
            /\ last.sent # Absent => last.sent = account_id
    /\ (last.op = "get_url" /\ Truthy(last.arg)) =>
            /\ ~last.auth
            /\ authCalls = last.calls
            /\ last.sent = last.arg

\* the fields right before get_url's GET: those _authenticate left
BeforeLookup ==
    IF last.auth THEN Authenticate(last.pre, last.resp).self ELSE last.pre

\* the lookup changed no field
LookupKeptFields ==
    /\ token = BeforeLookup.token
    /\ account_id = BeforeLookup.account_id
    /\ account_name = BeforeLookup.account_name

\* the directory's answer raised AuthenticationException and the lookup
\* changed no field
LookupFailedCleanly ==
    /\ last.exc = ErrEndpoints
    /\ last.exc \in AuthenticationExceptions
    /\ LookupKeptFields

\* C17 as stated: get_url authenticates first when it needs the Session's
\* account id, uses an explicit account id without authenticating, and any
\* directory response that is not 2xx raises AuthenticationException and
\* leaves the fields as they were before the lookup.
C17_AsStated ==
    /\ GetUrlAccountUsed
    /\ (last.op = "get_url" /\ last.sent # Absent
            /\ (last.status < 200 \/ last.status >= 300)) =>
            LookupFailedCleanly

\* C17 amended: the same, for a directory response that is 4xx or 5xx and
\* that the transport hands back; a directory still answering 502 or 503
\* on the last attempt the transport makes raises RetryError, the fields
\* likewise as they were before the lookup; a 304 raises the ValueError of
\* response.json().
C17_GetUrl ==
    /\ GetUrlAccountUsed
    /\ (last.op = "get_url" /\ last.sent # Absent
            /\ last.status >= 400 /\ last.status < 600
            /\ last.status \notin StatusForcelist) =>
            LookupFailedCleanly
    /\ (last.op = "get_url" /\ last.sent # Absent
            /\ last.status \in StatusForcelist) =>
            /\ last.exc = "RetryError" /\ last.ret = None
            /\ last.attempts = RetryTotal + 1
            /\ LookupKeptFields
    /\ (last.op = "get_url" /\ last.sent # Absent /\ last.status = 304) =>
            last.exc = "ValueError" /\ LookupKeptFields

C17_Witness ==
    /\ GetUrlOwnAccount
    /\ last.auth /\ last.authExc = "none"
    /\ last.sent = "A1" /\ account_id = "A1" /\ token = "T1"
    /\ last.status = 404
    /\ last.exc = ErrEndpoints

\* ------------------------------------------------------------------------
\* A Session built from a key and secret in a world where the identity
\* service always answers with a well-formed body.

InitKeys == Init /\ ~Truthy(config.aims_token)

\* the step's _authenticate, if it made one, got a well-formed response
WellFormedStep == last'.auth => WellFormed(last'.resp)

NextWF ==
    \/ (\E r \in Requests : Call(r)) /\ WellFormedStep
    \/ ReadAccountId /\ WellFormedStep
    \/ (\E name \in DefaultNames : GetDefault(name)) /\ WellFormedStep
    \/ (\E service \in Services, arg \in UrlAccountArgs,
           t \in DirectAnswers["https"]["GET"] \cup {NoAnswer} :
            GetUrl(service, arg, t)) /\ WellFormedStep
    \/ \E explicit \in BOOLEAN, t \in DirectAnswers["https"]["GET"] :
            Request("GET", "https", t, explicit)
    \/ \E service \in Services : ClientOp(service)
    \/ \E p \in PlainProps : ReadPlain(p)

SpecWF == InitKeys /\ [][NextWF]_vars

\* C14: with every authenticate answered by a well-formed body, a Session
\* built from a key and secret invokes _authenticate at most once, whatever
\* is called on it and whether or not an account id was given.
C14_AtMostOneAuth == authCalls <= 1

C14_Witness ==
    /\ authCalls = 1 /\ authOK = 1
    /\ last.op = "account_id" /\ ~last.auth
    /\ reqHeaders["r1"] = token /\ token # None
    /\ config.account_id = None

\* ------------------------------------------------------------------------
\* The calls seen together with the transport's retry loop: the endpoint
\* answers 502/503 a number of times before its final answer.

\* _authenticate when its POST goes through the transport: anything the
\* transport raises that is no HTTPError propagates as it is
AuthenticateVia(self, t, body) ==
    IF HasKeys(self) /\ t.exc # "none"
    THEN Raised([self EXCEPT
                   !.session_auth = <<self.access_key_id, self.secret_key>>],
                t.exc)
    ELSE Authenticate(self, [body EXCEPT !.status = t.status])

\* the bodies the identity service sends with its final answer
NetBodies ==
    {b \in AuthResponses : b.status = 200 /\ b.json /\ b.id = "A1"
                             /\ b.name = "N1" /\ b.token \in {Absent, "T1"}}

\* Session.__call__(r) on a Session without a token: _authenticate's POST
NetCall(r, ep) ==
    /\ CallNeedsAuth(Self)
    /\ authCalls < MaxAuthCalls
    /\ \E body \in NetBodies :
        LET t == Transport("POST", ep)
            a == AuthenticateVia(Self, t, body)
            ok == a.exc = "none"
        IN  /\ SetSelf(a.self)
            /\ CountAuth(TRUE, a)
            /\ reqHeaders' = IF ok THEN [reqHeaders EXCEPT ![r] = a.self.token]
                              ELSE reqHeaders
            /\ last' = [op |-> "__call__", arg |-> r, pre |-> Self,
                        calls |-> authCalls, attempts |-> 0,
                        scheme |-> None, auth |-> TRUE,
                        resp |-> [body EXCEPT !.status = t.status],
                        authExc |-> a.exc, exc |-> a.exc,
                        ret |-> IF ok THEN r ELSE None, status |-> 0,
                        sent |-> IF ok THEN a.self.token ELSE Absent]
            /\ net' = [op |-> "authenticate", method |-> "POST",
                       fails |-> ep.fails, failStatus |-> ep.failStatus,
                       final |-> ep.final, status |-> t.status,
                       exc |-> t.exc, attempts |-> t.attempts]
    /\ UNCHANGED <<raise_for_status, config, threads, shared>>

\* Session.request(method, url) with an https url and no headers argument
NetRequest(method, ep) ==
    LET t == Transport(method, ep)
        e == RequestOutcome(raise_for_status, t)
    IN
    /\ last' = [op |-> "request", arg |-> method, pre |-> Self,
                calls |-> authCalls, attempts |-> t.attempts,
                scheme |-> "https", auth |-> FALSE, resp |-> NoResp,
                authExc |-> "none", exc |-> e,
                ret |-> IF e = "none" THEN "response" ELSE None,
                status |-> t.status, sent |-> RequestToken(Self)]
    /\ net' = [op |-> "request", method |-> method,
               fails |-> ep.fails, failStatus |-> ep.failStatus,
               final |-> ep.final, status |-> t.status,
               exc |-> t.exc, attempts |-> t.attempts]
    /\ shared' = DefaultHeadersAfter(FALSE, RequestToken(Self))
    /\ UNCHANGED <<token, account_id, account_name, access_key_id, secret_key,
                   session_auth, raise_for_status, config, reqHeaders,
                   authCalls, authOK, threads>>

NextRetry ==
    \/ \E r \in Requests, ep \in Endpoints : NetCall(r, ep)
    \/ \E method \in Methods, ep \in Endpoints : NetRequest(method, ep)

SpecRetry == Init /\ [][NextRetry]_vars

\* C11: when the endpoint answers 503 twice and then 200, a request()
\* (taken here in its most favourable form, a GET) and the authenticate
\* POST both end with the 200 answer and nothing raised.
C11_RetriesThenSucceeds ==
    (net.fails = 2 /\ net.failStatus = 503 /\ net.final = 200) =>
        /\ (net.op = "request" /\ net.method = "GET") =>
                /\ net.status = 200
                /\ last.exc = "none" /\ last.ret = "response"
        /\ (net.op = "authenticate" /\ last.resp.token = "T1") =>
                /\ net.status = 200
                /\ last.exc = "none"
                /\ token = "T1"

\* ------------------------------------------------------------------------
\* request() to https:// and http:// urls and get_url() against the
\* endpoints that answer at once, after some 502/503, or never stop
\* answering 502/503.

NextTransport ==
    \/ ReadAccountId
    \/ \E service \in Services, arg \in UrlAccountArgs,
          t \in Answers["https"]["GET"] \cup {NoAnswer} :
            GetUrl(service, arg, t)
    \/ \E method \in Methods, scheme \in Schemes, explicit \in BOOLEAN :
            \E t \in Answers[scheme][method] :
                Request(method, scheme, t, explicit)

SpecTransport == Init /\ [][NextTransport]_vars

\* ------------------------------------------------------------------------
\* Two threads calling into the same Session.  A call that authenticates
\* blocks in _authenticate's POST (line 110), where another thread runs;
\* after the POST a thread can be preempted between any two statements, so
\* every read or write of a field of the Session is a step of its own.

\* calls that authenticate lazily
LazyOps == {"__call__", "account_id"}

\* the field the call's test looks at
Observed(op, self) == IF op = "__call__" THEN self.token ELSE self.account_id

\* the call's test: line 139 for __call__, line 246 for account_id
ThreadNeedsAuth(op, self) ==
    IF op = "__call__" THEN CallNeedsAuth(self) ELSE AccountIdNeedsAuth(self)

\* A thread enters __call__ or the account_id property: it runs the test
\* and, when that says so, _authenticate up to its POST (lines 106-110);
\* otherwise it goes on to the call's last line.
Begin(t, op, r) ==
    LET need == ThreadNeedsAuth(op, Self)
        posts == need /\ HasKeys(Self)
    IN
    /\ threads[t].pc = "idle"
    /\ need => authCalls < MaxAuthCalls
    /\ threads' = [threads EXCEPT ![t] =
                      [IdleThread EXCEPT
                         !.pc = IF posts THEN "posted"
                                ELSE IF need THEN "done" ELSE "returning",
                         !.op = op, !.r = r, !.saw = Observed(op, Self),
                         !.auth = need,
                         !.exc = IF need /\ ~posts THEN "AttributeError"
                                 ELSE "none"]]
    /\ session_auth' = IF posts THEN <<access_key_id, secret_key>>
                       ELSE session_auth
    /\ authCalls' = authCalls + (IF need THEN 1 ELSE 0)
    /\ UNCHANGED <<token, account_id, account_name, access_key_id, secret_key,
                   raise_for_status, config, reqHeaders, authOK, last, net,
                   shared>>

\* the call of thread t ends with exception e
ThreadRaises(t, e) == [threads EXCEPT ![t].pc = "done", ![t].exc = e]

\* lines 112-120: the POST of thread t returns; raise_for_status, json()
\* and the token's assignment
StoreToken(t) ==
    /\ threads[t].pc = "posted"
    /\ \E resp \in ResponsesFor(TRUE) :
        IF RaisesHTTPError(resp.status)
        THEN threads' = ThreadRaises(t, ErrHttp) /\ token' = token
        ELSE IF ~Parses(resp)
        THEN threads' = ThreadRaises(t, "ValueError") /\ token' = token
        ELSE IF resp.token = Absent
        THEN threads' = ThreadRaises(t, ErrToken) /\ token' = token
        ELSE /\ token' = resp.token
             /\ threads' = [threads EXCEPT ![t].pc = "token_stored",
                                            ![t].resp = resp]
    /\ UNCHANGED <<account_id, account_name, access_key_id, secret_key,
                   session_auth, raise_for_status, config, reqHeaders,
                   authCalls, authOK, last, net, shared>>

\* line 122: if self._account_id is None
TestId(t) ==
    /\ threads[t].pc = "token_stored"
    /\ threads' = [threads EXCEPT
                      ![t].pc = IF account_id = None THEN "id_tested"
                                ELSE "id_settled"]
    /\ UNCHANGED <<token, account_id, account_name, access_key_id, secret_key,
                   session_auth, raise_for_status, config, reqHeaders,
                   authCalls, authOK, last, net, shared>>

\* lines 123-127: the account id's assignment, after the test said None
StoreId(t) ==
    /\ threads[t].pc = "id_tested"
    /\ IF threads[t].resp.id = Absent
       THEN threads' = ThreadRaises(t, ErrAccountId)
            /\ account_id' = account_id
       ELSE /\ account_id' = threads[t].resp.id
            /\ threads' = [threads EXCEPT ![t].pc = "id_settled"]
    /\ UNCHANGED <<token, account_name, access_key_id, secret_key,
                   session_auth, raise_for_status, config, reqHeaders,
                   authCalls, authOK, last, net, shared>>

\* lines 129-133: the account name's assignment; _authenticate returns
StoreName(t) ==
    /\ threads[t].pc = "id_settled"
    /\ IF threads[t].resp.name = Absent
       THEN /\ threads' = ThreadRaises(t, ErrAccountName)
            /\ UNCHANGED <<account_name, authOK>>
       ELSE /\ account_name' = threads[t].resp.name
            /\ authOK' = authOK + 1
            /\ threads' = [threads EXCEPT ![t].pc = "returning"]
    /\ UNCHANGED <<token, account_id, access_key_id, secret_key,
                   session_auth, raise_for_status, config, reqHeaders,
                   authCalls, last, net, shared>>

\* the call's last line reads the field as it is now: line 141 puts
\* self._token into the request's header, line 248 returns
\* self._account_id
Finish(t) ==
    /\ threads[t].pc = "returning"
    /\ threads' = [threads EXCEPT
                      ![t].pc = "done",
                      ![t].ret = Observed(threads[t].op, Self)]
    /\ reqHeaders' = IF threads[t].op = "__call__"
                      THEN [reqHeaders EXCEPT ![threads[t].r] = token]
                      ELSE reqHeaders
    /\ UNCHANGED <<token, account_id, account_name, access_key_id, secret_key,
                   session_auth, raise_for_status, config, authCalls, authOK,
                   last, net, shared>>

NextConc ==
    \/ \E t \in Threads, op \in LazyOps, r \in Requests : Begin(t, op, r)
    \/ \E t \in Threads : StoreToken(t)
    \/ \E t \in Threads : TestId(t)
    \/ \E t \in Threads : StoreId(t)
    \/ \E t \in Threads : StoreName(t)
    \/ \E t \in Threads : Finish(t)

SpecConc == Init /\ [][NextConc]_vars

\* C12: nothing guards the test-then-authenticate of a lazy call: every
\* thread whose test saw None has invoked _authenticate, whatever the other
\* thread was doing, so two threads that both saw None make two
\* authenticate calls on the one Session.
C12_CheckThenActRace ==
    /\ \A t \in Threads :
            (threads[t].pc # "idle" /\ threads[t].saw = None) =>
                threads[t].auth
    /\ authCalls = Cardinality({t \in Threads : threads[t].auth})

C12_Witness ==
    /\ \A t \in Threads :
            /\ threads[t].op = "__call__"
            /\ threads[t].saw = None
            /\ threads[t].pc = "posted"
    /\ token = None
    /\ authCalls = 2

\* ------------------------------------------------------------------------
\* Two Sessions in one process, this one and a peer built with another
\* token, and two threads calling request() on them.  The default value of
\* request's headers parameter (line 202) is one dict for all of them.

Sessions == {"self", "peer"}
\* the peer Session's token
PeerToken == "T9"
\* the peer after Session(aims_token=PeerToken, raise_for_status=rfs)
PeerSession(rfs) == [token |-> PeerToken, raise_for_status |-> rfs]
\* self._token of the Session the call is made on
SessionToken(sess) ==
    RequestToken(IF sess = "self" THEN Self ELSE shared.peer)
\* self._raise_for_status of the Session the call is made on
SessionRaiseForStatus(sess) ==
    IF sess = "self" THEN raise_for_status ELSE shared.peer.raise_for_status

\* line 205, headers.update({'x-aims-auth-token': self._token}): on the
\* shared default dict, or on the dict the caller passed
RequestUpdate(t, sess, explicit) ==
    /\ shared.req[t].pc = "idle"
    /\ shared' = [shared EXCEPT
                    !.default = IF explicit THEN @ ELSE SessionToken(sess),
                    !.req[t] = [pc |-> "updated", session |-> sess,
                                explicit |-> explicit,
                                own |-> IF explicit THEN SessionToken(sess)
                                        ELSE Absent,
                                sent |-> Absent, exc |-> "none"]]
    /\ UNCHANGED <<token, account_id, account_name, access_key_id, secret_key,
                   session_auth, raise_for_status, config, reqHeaders,
                   authCalls, authOK, last, net, threads>>

\* line 212, self._session.request(..., headers=headers): the request goes
\* out with what the dict holds now, and the thread waits for the answer
RequestSend(t) ==
    /\ shared.req[t].pc = "updated"
    /\ shared' = [shared EXCEPT
                    !.req[t].pc = "sent",
                    !.req[t].sent = IF shared.req[t].explicit
                                    THEN shared.req[t].own
                                    ELSE shared.default]
    /\ UNCHANGED <<token, account_id, account_name, access_key_id, secret_key,
                   session_auth, raise_for_status, config, reqHeaders,
                   authCalls, authOK, last, net, threads>>

\* lines 212-222: the wait ends; what the transport raises propagates,
\* else raise_for_status by the flag of the Session the call was made on,
\* or return
RequestAnswer(t, method, ans) ==
    /\ shared.req[t].pc = "sent"
    /\ ans \in UNION {Answers[scheme][method] : scheme \in Schemes}
    /\ shared' = [shared EXCEPT
                    !.req[t].pc = "idle",
                    !.req[t].exc =
                        RequestOutcome(
                            SessionRaiseForStatus(shared.req[t].session),
                            ans)]
    /\ UNCHANGED <<token, account_id, account_name, access_key_id, secret_key,
                   session_auth, raise_for_status, config, reqHeaders,
                   authCalls, authOK, last, net, threads>>

NextShared ==
    \/ \E t \in Threads, sess \in Sessions, explicit \in BOOLEAN :
            RequestUpdate(t, sess, explicit)
    \/ \E t \in Threads : RequestSend(t)
    \/ \E t \in Threads, method \in Methods :
            \E ans \in UNION {Answers[scheme][method] : scheme \in Schemes} :
                RequestAnswer(t, method, ans)

\* this Session was built with a token, the peer with another one
InitShared ==
    /\ InitSession
    /\ Truthy(config.aims_token)
    /\ \E rfs \in BOOLEAN : shared = [NoShared EXCEPT !.peer = PeerSession(rfs)]

SpecShared == InitShared /\ [][NextShared]_vars

\* C18: the token a request() call sends, when it was called without a
\* headers argument, is the token of the Session it was called on.
C18_SendsOwnToken ==
    \A t \in Threads :
        (shared.req[t].sent # Absent /\ ~shared.req[t].explicit) =>
            shared.req[t].sent = SessionToken(shared.req[t].session)

====
